---- MODULE Spec2Model ----
(***************************************************************************)
(* Model of the battle engine of pokemon-mcp                               *)
(* (src/src/tools/battle_simulation.py): the status-effect manager, the    *)
(* damage formula and the round loop of BattleSimulator.simulate_battle.   *)
(*                                                                         *)
(* Python floats are modelled by exact rational arithmetic on integers     *)
(* (numerator / denominator, truncated where the code calls int()).        *)
(* Python object references are modelled by the indices 1 and 2 into the   *)
(* variable pokemon; the dataclass-generated == compares field values and  *)
(* is modelled by equality of the records.                                 *)
(***************************************************************************)
EXTENDS Integers, Sequences, FiniteSets, TLC

VARIABLES
    pokemon,        \* 1..2 -> Pokemon object (pokemon1, pokemon2)
    current_hp,     \* 1..2 -> current_hp1, current_hp2
    turn_count,     \* simulate_battle: turn_count
    turns,          \* simulate_battle: turns (the turn index of each record)
    turn_details,   \* simulate_battle: the record of the round in progress
    first_pokemon,  \* reference (1 or 2) held by first_pokemon, 0 before
    second_pokemon, \* reference (1 or 2) held by second_pokemon, 0 before
    move,           \* the move picked by random.choice, None otherwise
    pc,             \* position of the control flow
    result,         \* the BattleResult returned, None before
    stub_answer,    \* unit-level runs: the answer of the stubbed type lookup
    ret,            \* the last call of a unit-level run and what it returned
    hist,           \* history of the sleep being observed (unit-level runs)
    request,        \* 1..2 -> the name asked for (tool-level runs)
    data,           \* 1..2 -> what get_pokemon_by_name answered (tool-level runs)
    response,       \* what simulate_pokemon_battle returned (tool-level runs)
    suspended       \* the locals of a second simulate_battle call that is
                    \* suspended at an await (concurrent runs)

vars == <<pokemon, current_hp, turn_count, turns, turn_details, first_pokemon,
          second_pokemon, move, pc, result, stub_answer, ret, hist, request, suspended,
          data, response>>

None == "None"

\* no move picked, no result returned yet
NoMove == [name |-> None, type |-> None, power |-> 0, accuracy |-> 0,
           damage_class |-> None]
NoResult == [winner |-> None, turns |-> <<>>, battle_summary |-> <<>>]

\* nothing fetched, nothing returned by the tool yet
NoRequest == [i \in 1..2 |-> None]
NoData == [i \in 1..2 |-> [found |-> FALSE]]
NoResponse == [kind |-> None]

\* no second simulate_battle call
NoFrame == [id |-> 0]

Max(a, b) == IF a >= b THEN a ELSE b

\* ------------------------------------------------------------------------
\* class StatusEffect
BURN == "burn"
POISON == "poison"
PARALYSIS == "paralysis"
SLEEP == "sleep"
FREEZE == "freeze"
CONFUSION == "confusion"

StatusEffect == {BURN, POISON, PARALYSIS, SLEEP, FREEZE, CONFUSION}

\* major_statuses, in the order of the list literal
major_statuses == <<BURN, POISON, PARALYSIS, SLEEP, FREEZE>>

Range(s) == {s[i] : i \in DOMAIN s}

\* x in list
In(x, s) == x \in Range(s)

\* list.remove(x): drops the first occurrence
ListRemove(s, x) ==
    IF ~In(x, s) THEN s
    ELSE LET k == CHOOSE i \in DOMAIN s : s[i] = x /\ \A j \in 1..(i - 1) : s[j] # x
         IN  SubSeq(s, 1, k - 1) \o SubSeq(s, k + 1, Len(s))

\* dict.pop leaving the entry in place
DictPopKeeping(d, k) == d

\* {} , dict.pop(k, None) , dict[k] = v , dict.get(k, d)
EmptyDict == [k \in {} |-> 0]
DictPop(d, k) == [x \in (DOMAIN d) \ {k} |-> d[x]]
DictSet(d, k, v) == [x \in (DOMAIN d) \cup {k} |-> IF x = k THEN v ELSE d[x]]
DictGet(d, k, dflt) == IF k \in DOMAIN d THEN d[k] ELSE dflt

\* The removal loop of apply_status_effect leaving the duration counters.
RECURSIVE RemoveMajorsKeepingTurns(_, _)
RemoveMajorsKeepingTurns(p, i) ==
    IF i > Len(major_statuses) THEN p
    ELSE LET existing_status == major_statuses[i]
         IN  IF In(existing_status, p.status_effects)
               THEN RemoveMajorsKeepingTurns(
                      [p EXCEPT !.status_effects = ListRemove(@, existing_status)],
                      i + 1)
               ELSE RemoveMajorsKeepingTurns(p, i + 1)

\* ------------------------------------------------------------------------
\* StatusEffectManager.apply_status_effect
\* The loop that removes the major conditions already held.
RECURSIVE RemoveMajors(_, _)
RemoveMajors(p, i) ==
    IF i > Len(major_statuses) THEN p
    ELSE LET existing_status == major_statuses[i]
         IN  IF In(existing_status, p.status_effects)
               THEN RemoveMajors(
                      [p EXCEPT !.status_effects = ListRemove(@, existing_status),
                                !.status_turns = DictPop(@, existing_status)],
                      i + 1)
               ELSE RemoveMajors(p, i + 1)

\* The same method without the removal of the other major conditions.
ApplyKeepingMajors(p, status, sleep_draw, confusion_draw) ==
    IF In(status, p.status_effects)
      THEN [pokemon |-> p, msg |-> "already", status |-> status]
      ELSE LET q == [p EXCEPT !.status_effects = Append(@, status)]
               r == IF status = SLEEP
                      THEN [q EXCEPT !.status_turns = DictSet(@, status, sleep_draw)]
                    ELSE IF status = CONFUSION
                      THEN [q EXCEPT !.status_turns = DictSet(@, status, confusion_draw)]
                    ELSE q
           IN  [pokemon |-> r, msg |-> "now", status |-> status]

\* The same method drawing a new duration for a sleep or a confusion that
\* is already held.
ApplyRedrawing(p, status, sleep_draw, confusion_draw) ==
    LET cleared == IF In(status, major_statuses) /\ ~In(status, p.status_effects)
                     THEN RemoveMajors(p, 1) ELSE p
        q == IF In(status, p.status_effects) THEN p
             ELSE [cleared EXCEPT !.status_effects = Append(@, status)]
        r == IF status = SLEEP
               THEN [q EXCEPT !.status_turns = DictSet(@, status, sleep_draw)]
             ELSE IF status = CONFUSION
               THEN [q EXCEPT !.status_turns = DictSet(@, status, confusion_draw)]
             ELSE q
    IN  [pokemon |-> r,
         msg |-> IF In(status, p.status_effects) THEN "already" ELSE "now",
         status |-> status]

\* The same method writing the halved speed into a newly paralysed
\* combatant.
ApplyWritingSpeed(p, status, sleep_draw, confusion_draw) ==
    IF In(status, p.status_effects)
      THEN [pokemon |-> p, msg |-> "already", status |-> status]
      ELSE LET cleared == IF In(status, major_statuses) THEN RemoveMajors(p, 1) ELSE p
               q == [cleared EXCEPT !.status_effects = Append(@, status),
                                    !.speed = IF status = PARALYSIS THEN @ \div 2 ELSE @]
               r == IF status = SLEEP
                      THEN [q EXCEPT !.status_turns = DictSet(@, status, sleep_draw)]
                    ELSE IF status = CONFUSION
                      THEN [q EXCEPT !.status_turns = DictSet(@, status, confusion_draw)]
                    ELSE q
           IN  [pokemon |-> r, msg |-> "now", status |-> status]

\* sleep_draw is random.randint(1, 3), confusion_draw is random.randint(2, 5)
apply_status_effect(p, status, sleep_draw, confusion_draw) ==
    IF In(status, p.status_effects)
      THEN [pokemon |-> p, msg |-> "already", status |-> status]
      ELSE LET cleared == IF In(status, major_statuses) THEN RemoveMajors(p, 1) ELSE p
               q == [cleared EXCEPT !.status_effects = Append(@, status)]
               r == IF status = SLEEP
                      THEN [q EXCEPT !.status_turns = DictSet(@, status, sleep_draw)]
                    ELSE IF status = CONFUSION
                      THEN [q EXCEPT !.status_turns = DictSet(@, status, confusion_draw)]
                    ELSE q
           IN  [pokemon |-> r, msg |-> "now", status |-> status]

\* ------------------------------------------------------------------------
\* StatusEffectManager.process_status_damage
RECURSIVE StatusDamageLoop(_, _, _, _)
StatusDamageLoop(p, copy, i, acc) ==
    IF i > Len(copy) THEN acc
    ELSE IF copy[i] = BURN
      THEN LET burn_damage == Max(1, p.max_hp \div 16)
           IN  StatusDamageLoop(p, copy, i + 1,
                 [damage |-> acc.damage + burn_damage,
                  messages |-> Append(acc.messages, <<"hurt_by_burn", burn_damage>>)])
    ELSE IF copy[i] = POISON
      THEN LET poison_damage == Max(1, p.max_hp \div 8)
           IN  StatusDamageLoop(p, copy, i + 1,
                 [damage |-> acc.damage + poison_damage,
                  messages |-> Append(acc.messages, <<"hurt_by_poison", poison_damage>>)])
    ELSE StatusDamageLoop(p, copy, i + 1, acc)

\* The same method without the floor of 1 on either damage.
ProcessStatusDamageNoFloor(p) ==
    [damage |-> (IF In(BURN, p.status_effects) THEN p.max_hp \div 16 ELSE 0)
                + (IF In(POISON, p.status_effects) THEN p.max_hp \div 8 ELSE 0),
     messages |-> <<>>]

process_status_damage(p) ==
    StatusDamageLoop(p, p.status_effects, 1, [damage |-> 0, messages |-> <<>>])

\* ------------------------------------------------------------------------
\* StatusEffectManager.can_move
\* rolls: the outcome of each random.random() comparison that may be made,
\*   rolls.par  : random.random() < 0.25  (paralysed, cannot move)
\*   rolls.thaw : random.random() < 0.2   (thawed out)
\*   rolls.hurt : random.random() < 0.5   (confused, hurt itself)
\* The loop runs over a copy of status_effects taken on entry.
RECURSIVE CanMoveLoop(_, _, _, _, _)
CanMoveLoop(p, copy, i, messages, rolls) ==
    IF i > Len(copy)
      THEN [pokemon |-> p, can |-> TRUE, msg |-> messages]
    ELSE LET status == copy[i] IN
      IF status = PARALYSIS
        THEN IF rolls.par
               THEN [pokemon |-> p, can |-> FALSE, msg |-> <<"paralyzed">>]
               ELSE CanMoveLoop(p, copy, i + 1, messages, rolls)
      ELSE IF status = SLEEP
        THEN LET turns_left == DictGet(p.status_turns, status, 0) IN
             IF turns_left > 0
               THEN IF turns_left - 1 <= 0
                      THEN [pokemon |-> [p EXCEPT !.status_effects = ListRemove(@, SLEEP),
                                                  !.status_turns = DictPop(@, SLEEP)],
                            can |-> TRUE, msg |-> <<"woke_up">>]
                      ELSE [pokemon |-> [p EXCEPT !.status_turns =
                                                    DictSet(@, status, turns_left - 1)],
                            can |-> FALSE, msg |-> <<"fast_asleep">>]
               ELSE CanMoveLoop(p, copy, i + 1, messages, rolls)
      ELSE IF status = FREEZE
        THEN IF rolls.thaw
               THEN [pokemon |-> [p EXCEPT !.status_effects = ListRemove(@, FREEZE)],
                     can |-> TRUE, msg |-> <<"thawed_out">>]
               ELSE [pokemon |-> p, can |-> FALSE, msg |-> <<"frozen_solid">>]
      ELSE IF status = CONFUSION
        THEN LET turns_left == DictGet(p.status_turns, status, 0) IN
             IF turns_left > 0
               THEN IF turns_left - 1 <= 0
                      THEN CanMoveLoop(
                             [p EXCEPT !.status_effects = ListRemove(@, CONFUSION),
                                       !.status_turns = DictPop(@, CONFUSION)],
                             copy, i + 1, Append(messages, "snapped_out"), rolls)
                      ELSE LET q == [p EXCEPT !.status_turns =
                                                DictSet(@, status, turns_left - 1)]
                           IN  IF rolls.hurt
                                 THEN [pokemon |-> q, can |-> FALSE,
                                       msg |-> <<"hurt_itself">>]
                                 ELSE CanMoveLoop(q, copy, i + 1, messages, rolls)
               ELSE CanMoveLoop(p, copy, i + 1, messages, rolls)
      ELSE CanMoveLoop(p, copy, i + 1, messages, rolls)

\* The same method with paralysis wearing off once the call is over.
CanMoveCuringParalysis(p, rolls) ==
    LET g == CanMoveLoop(p, p.status_effects, 1, <<>>, rolls)
    IN  [g EXCEPT !.pokemon.status_effects = ListRemove(@, PARALYSIS)]

\* The same method with a confused combatant that hurts itself losing 1 HP.
CanMoveHurting(p, rolls) ==
    LET g == CanMoveLoop(p, p.status_effects, 1, <<>>, rolls)
    IN  IF g.msg = <<"hurt_itself">>
          THEN [g EXCEPT !.pokemon.hp = Max(0, @ - 1)]
          ELSE g

can_move(p, rolls) == CanMoveLoop(p, p.status_effects, 1, <<>>, rolls)

Rolls == [par : BOOLEAN, thaw : BOOLEAN, hurt : BOOLEAN]

\* The same method halving the damage of special moves too.
ModifyDamageAnyClass(p, damage, is_physical) ==
    IF In(BURN, p.status_effects) THEN damage \div 2 ELSE damage

\* StatusEffectManager.modify_damage
modify_damage(p, damage, is_physical) ==
    IF In(BURN, p.status_effects) /\ is_physical THEN damage \div 2 ELSE damage

\* ------------------------------------------------------------------------
\* The data provider's type_efficacy table (damage_factor, in percent), as
\* far as the types of the modelled combatants go.  A pair without a row
\* is skipped by get_type_effectiveness.
type_efficacy ==
    (<<"normal", "ghost">> :> 0) @@ (<<"normal", "normal">> :> 100) @@
    (<<"normal", "rock">> :> 50) @@
    (<<"fire", "normal">> :> 100) @@ (<<"fire", "fire">> :> 50) @@
    (<<"fire", "ice">> :> 200) @@ (<<"fire", "rock">> :> 50) @@
    (<<"electric", "normal">> :> 100) @@ (<<"electric", "electric">> :> 50) @@
    (<<"electric", "ground">> :> 0) @@ (<<"electric", "flying">> :> 200) @@
    (<<"poison", "normal">> :> 100) @@ (<<"poison", "ghost">> :> 50) @@
    (<<"poison", "poison">> :> 50)

\* PokemonDatabase.get_type_effectiveness: the product, over the defending
\* types, of damage_factor / 100.0.  Every factor of the table is a
\* multiple of 50, so the product is kept as num / den with den = 2^n.
RECURSIVE get_type_effectiveness(_, _)
get_type_effectiveness(attacking_type, defending_types) ==
    IF defending_types = <<>> THEN [num |-> 1, den |-> 1]
    ELSE LET rest == get_type_effectiveness(attacking_type, Tail(defending_types))
             key == <<attacking_type, Head(defending_types)>>
         IN  IF key \in DOMAIN type_efficacy
               THEN [num |-> rest.num * (type_efficacy[key] \div 50), den |-> rest.den * 2]
               ELSE rest

\* BattleSimulator._get_move_status_chance (the chance in percent);
\* the move names of the model are lower case, so .lower() changes nothing
move_status_map ==
    [flamethrower |-> <<BURN, 10>>, ember |-> <<BURN, 10>>,
     thunderbolt |-> <<PARALYSIS, 10>>, thunder |-> <<PARALYSIS, 30>>,
     nuzzle |-> <<PARALYSIS, 100>>,
     toxic |-> <<POISON, 90>>, spore |-> <<SLEEP, 100>>, hypnosis |-> <<SLEEP, 60>>,
     blizzard |-> <<FREEZE, 10>>, confusion |-> <<CONFUSION, 10>>,
     psybeam |-> <<CONFUSION, 10>>]

\* the other entries of the table, whose names are no TLA+ field names
move_status_map_dashed ==
    ("fire-blast" :> <<BURN, 10>>) @@ ("fire-punch" :> <<BURN, 10>>) @@
    ("thunder-shock" :> <<PARALYSIS, 10>>) @@ ("poison-sting" :> <<POISON, 30>>) @@
    ("poison-jab" :> <<POISON, 30>>) @@ ("sludge-bomb" :> <<POISON, 30>>) @@
    ("sleep-powder" :> <<SLEEP, 75>>) @@ ("ice-beam" :> <<FREEZE, 10>>)

get_move_status_chance(move_name) ==
    IF move_name \in DOMAIN move_status_map THEN move_status_map[move_name]
    ELSE IF move_name \in DOMAIN move_status_map_dashed
      THEN move_status_map_dashed[move_name]
    ELSE <<None, 0>>

\* The outcomes random.random() < status_chance can have: random.random()
\* lies in [0, 1), so a chance of 1.0 always succeeds and 0.0 never does.
StatusRolls(status_chance) ==
    IF status_chance >= 100 THEN {TRUE}
    ELSE IF status_chance <= 0 THEN {FALSE}
    ELSE BOOLEAN

\* level = 50
level == 50

\* The float damage before int(): base damage, type effectiveness,
\* critical hit (x 1.5), random factor (factor / 20 in [0.85, 1.0]) and
\* same-type bonus (x 1.5), as numerator and denominator.
(* (2 * level / 5 + 2) is (2 * level + 10) / 5 *)
\* The same float with a same-type bonus of x 2.
DamageNumDoubleStab(power, attack_stat, defense_stat, effectiveness, is_critical, factor, stab) ==
    ((2 * level + 10) * power * attack_stat + 2 * 5 * 50 * defense_stat)
      * effectiveness.num
      * (IF is_critical THEN 3 ELSE 2)
      * factor
      * (IF stab THEN 4 ELSE 2)

DamageNum(power, attack_stat, defense_stat, effectiveness, is_critical, factor, stab) ==
    ((2 * level + 10) * power * attack_stat + 2 * 5 * 50 * defense_stat)
      * effectiveness.num
      * (IF is_critical THEN 3 ELSE 2)
      * factor
      * (IF stab THEN 3 ELSE 2)

DamageDen(defense_stat, effectiveness) ==
    (5 * 50 * defense_stat) * effectiveness.den * 2 * 20 * 2

\* The last line of _calculate_damage without the floor of 1.
ReturnedDamageNoFloor(damage) == damage

\* return max(1, int(damage)), ...
ReturnedDamage(damage) == Max(1, damage)

\* BattleSimulator._calculate_damage.  effectiveness is the awaited answer
\* of the type-effectiveness lookup; d holds the random draws:
\*   d.crit (random.random() < 1/16), d.factor (random.uniform(0.85, 1.0),
\*   in twentieths), d.status (random.random() < status_chance),
\*   d.sleep and d.confusion (the randint draws of apply_status_effect).
calculate_damage(attacker, defender, mv, effectiveness, d) ==
    IF mv.power <= 0
      THEN [damage |-> 0, is_critical |-> FALSE, status_inflicted |-> None,
            defender |-> defender]
    ELSE LET is_physical == mv.damage_class = "physical"
             attack_stat == IF is_physical THEN attacker.attack
                            ELSE attacker.special_attack
             defense_stat == IF is_physical THEN defender.defense
                             ELSE defender.special_defense
             stab == In(mv.type, attacker.types)
             \* int(damage), damage >= 0
             truncated == DamageNum(mv.power, attack_stat, defense_stat,
                                    effectiveness, d.crit, d.factor, stab)
                            \div DamageDen(defense_stat, effectiveness)
             damage == modify_damage(attacker, truncated, is_physical)
             sc == get_move_status_chance(mv.name)
             inflict == sc[1] # None /\ d.status
             applied == IF inflict
                          THEN apply_status_effect(defender, sc[1], d.sleep,
                                                   d.confusion).pokemon
                          ELSE defender
         IN  [damage |-> ReturnedDamage(damage), is_critical |-> d.crit,
              status_inflicted |-> IF inflict THEN sc[1] ELSE None,
              defender |-> applied]

\* The draws _calculate_damage can make for a move, given the chance
\* of the move's status.
Factors == {17, 18, 20}
SleepDraws == 1..3
ConfusionDraws == 2..5

Draws(mv) ==
    LET sc == get_move_status_chance(mv.name)
    IN  {d \in [crit : BOOLEAN, factor : Factors, status : StatusRolls(sc[2]),
                sleep : SleepDraws, confusion : ConfusionDraws] :
           /\ (sc[1] # SLEEP \/ ~d.status) => d.sleep = 1
           /\ (sc[1] # CONFUSION \/ ~d.status) => d.confusion = 2}

\* ------------------------------------------------------------------------
\* The combatants handed to simulate_battle.  A Pokemon object, as
\* prepare_pokemon_for_battle builds it: hp = max_hp, no status.
Move(name, type, power, damage_class) ==
    [name |-> name, type |-> type, power |-> power, accuracy |-> 100,
     damage_class |-> damage_class]

Pokemon(name, hp, attack, defense, special_attack, special_defense, speed, types, moves) ==
    [name |-> name, hp |-> hp, max_hp |-> hp, attack |-> attack, defense |-> defense,
     special_attack |-> special_attack, special_defense |-> special_defense,
     speed |-> speed, types |-> types, moves |-> moves,
     status_effects |-> <<>>, status_turns |-> EmptyDict]

tackle == Move("tackle", "normal", 40, "physical")
ember == Move("ember", "fire", 40, "special")
nuzzle == Move("nuzzle", "electric", 20, "physical")
poison_sting == Move("poison-sting", "poison", 15, "physical")
splash == Move("splash", "normal", 0, "physical")
confusion == Move("confusion", "psychic", 50, "special")

Roster ==
    { Pokemon("rattata", 18, 6, 20, 10, 20, 22, <<"normal">>, <<tackle>>),
      Pokemon("charmander", 20, 10, 20, 12, 20, 15, <<"fire">>, <<ember, tackle>>),
      Pokemon("pikachu", 16, 10, 16, 10, 16, 20, <<"electric">>, <<nuzzle>>),
      Pokemon("weedle", 22, 10, 20, 10, 20, 12, <<"bug", "poison">>, <<poison_sting>>),
      Pokemon("magikarp", 14, 10, 20, 10, 20, 18, <<"water">>, <<>>),
      Pokemon("metapod", 16, 10, 20, 10, 20, 10, <<"bug">>, <<splash>>),
      Pokemon("abra", 15, 4, 20, 12, 20, 16, <<"psychic">>, <<confusion>>) }

\* max_turns = 100
max_turns == 100

\* dataclass __eq__ of two Pokemon objects, by reference i and j
PokemonEq(i, j) == pokemon[i] = pokemon[j]

\* speed, halved when the combatant holds paralysis
EffectiveSpeed(p) ==
    IF In(PARALYSIS, p.status_effects) THEN p.speed \div 2 ELSE p.speed

\* first_pokemon = pokemon1 if speed1 > speed2 else pokemon2
FirstActorStrict(speed1, speed2) == IF speed1 > speed2 THEN 1 ELSE 2

\* first_pokemon = pokemon1 if speed1 >= speed2 else pokemon2
FirstActor(speed1, speed2) == IF speed1 >= speed2 THEN 1 ELSE 2

\* the choice among all the moves, whatever their power
AttackingMovesUnfiltered(p) == p.moves

\* [m for m in p.moves if int(m.get('power', 0)) > 0]
AttackingMoves(p) == SelectSeq(p.moves, LAMBDA m : m.power > 0)

\* current_hp = max(0, current_hp - damage) without the clamp
HpAfterUnclamped(hp, damage) == hp - damage

\* current_hp = max(0, current_hp - damage)
HpAfter(hp, damage) == Max(0, hp - damage)

\* while current_hp1 > 0 and current_hp2 > 0 without the turn bound
LoopConditionUnbounded == current_hp[1] > 0 /\ current_hp[2] > 0

\* while current_hp1 > 0 and current_hp2 > 0 and turn_count < max_turns
LoopCondition == current_hp[1] > 0 /\ current_hp[2] > 0 /\ turn_count < max_turns

\* the f-string appended after an attack
AttackAction(attacker_name, mv, r, target_name) ==
    [kind |-> "attack", who |-> attacker_name, move |-> mv.name, damage |-> r.damage,
     target |-> target_name, critical |-> r.is_critical, status |-> r.status_inflicted]

AddAction(td, a) == [td EXCEPT !.actions = Append(@, a)]

\* if status_msg: turn_details['actions'].append(status_msg)
AddStatusMsg(td, name, msgs) ==
    IF msgs = <<>> THEN td
    ELSE AddAction(td, [kind |-> "status_msg", who |-> name, msgs |-> msgs])

NoTurn == [turn |-> 0, actions |-> <<>>]

\* ------------------------------------------------------------------------
\* simulate_battle, entered
BattleInit ==
    /\ pokemon \in [1..2 -> Roster]
    /\ current_hp = [i \in 1..2 |-> pokemon[i].hp]
    /\ turn_count = 0
    /\ turns = <<>>
    /\ turn_details = NoTurn
    /\ first_pokemon = 0
    /\ second_pokemon = 0
    /\ move = NoMove
    /\ pc = "loop"
    /\ result = NoResult
    /\ stub_answer = None
    /\ ret = None
    /\ hist = None
    /\ request = NoRequest
    /\ suspended = NoFrame
    /\ data = NoData
    /\ response = NoResponse

\* The head of a round: turn order.
StartRound ==
    /\ pc = "loop"
    /\ LoopCondition
    /\ turn_count' = turn_count + 1
    /\ turn_details' = [turn |-> turn_count + 1, actions |-> <<>>]
    /\ LET speed1 == EffectiveSpeed(pokemon[1])
           speed2 == EffectiveSpeed(pokemon[2])
           f == FirstActor(speed1, speed2)
       IN  /\ first_pokemon' = f
           /\ second_pokemon' = IF PokemonEq(f, 1) THEN 2 ELSE 1
    /\ pc' = "first_turn"
    /\ UNCHANGED <<pokemon, current_hp, turns, move, result, stub_answer, ret, hist,
                   request, suspended, data, response>>

\* can_move and the choice of a move, for the actor a; next is the
\* position reached when the actor does not attack.
Gate(a, allowed, attack_pc, next) ==
    \E rolls \in Rolls :
      LET g == can_move(pokemon[a], rolls)
          td == AddStatusMsg(turn_details, pokemon[a].name, g.msg)
          p == g.pokemon
      IN  /\ pokemon' = [pokemon EXCEPT ![a] = p]
          /\ IF g.can /\ allowed
               THEN IF p.moves = <<>>
                      THEN /\ turn_details' = AddAction(td, [kind |-> "no_moves", who |-> p.name])
                           /\ move' = NoMove
                           /\ pc' = next
                    ELSE IF AttackingMoves(p) = <<>>
                      THEN /\ turn_details' = AddAction(td, [kind |-> "struggles", who |-> p.name])
                           /\ move' = NoMove
                           /\ pc' = next
                    ELSE \E k \in DOMAIN AttackingMoves(p) :
                           /\ move' = AttackingMoves(p)[k]
                           /\ turn_details' = td
                           /\ pc' = attack_pc
               ELSE /\ turn_details' = td
                    /\ move' = NoMove
                    /\ pc' = next

\* First Pokemon's turn, up to the awaited type-effectiveness lookup
FirstTurn ==
    /\ pc = "first_turn"
    /\ Gate(first_pokemon, TRUE, "first_attack", "check")
    /\ UNCHANGED <<current_hp, turn_count, turns, first_pokemon, second_pokemon,
                   result, stub_answer, ret, hist, request, suspended, data, response>>

\* First Pokemon's attack: the damage and where it is subtracted
FirstAttack ==
    /\ pc = "first_attack"
    /\ LET target == IF PokemonEq(first_pokemon, 1) THEN second_pokemon ELSE 1
           eff == get_type_effectiveness(move.type, pokemon[target].types)
       IN  \E d \in Draws(move) :
             LET r == calculate_damage(pokemon[first_pokemon], pokemon[target], move, eff, d)
                 after == [pokemon EXCEPT ![target] = r.defender]
                 on_two == after[first_pokemon] = after[1]
                 target_name == IF on_two THEN after[second_pokemon].name
                                ELSE after[1].name
             IN  /\ pokemon' = after
                 /\ current_hp' = IF on_two
                                    THEN [current_hp EXCEPT ![2] = HpAfter(@, r.damage)]
                                    ELSE [current_hp EXCEPT ![1] = HpAfter(@, r.damage)]
                 /\ turn_details' = AddAction(turn_details,
                        AttackAction(after[first_pokemon].name, move, r, target_name))
    /\ move' = NoMove
    /\ pc' = "check"
    /\ UNCHANGED <<turn_count, turns, first_pokemon, second_pokemon, result, stub_answer,
                   ret, hist, request, suspended, data, response>>

\* The check after the first attack going on to the second actor whatever
\* the HP are.
CheckOverNeverBreaks ==
    /\ pc = "check"
    /\ turns' = turns
    /\ pc' = "second_turn"
    /\ UNCHANGED <<pokemon, current_hp, turn_count, turn_details, first_pokemon,
                   second_pokemon, move, result, stub_answer, ret, hist,
                   request, suspended, data, response>>

\* Check if battle is over
CheckOver ==
    /\ pc = "check"
    /\ IF current_hp[1] <= 0 \/ current_hp[2] <= 0
         THEN /\ turns' = Append(turns, turn_details.turn)
              /\ pc' = "after_loop"
         ELSE /\ turns' = turns
              /\ pc' = "second_turn"
    /\ UNCHANGED <<pokemon, current_hp, turn_count, turn_details, first_pokemon,
                   second_pokemon, move, result, stub_answer, ret, hist,
                   request, suspended, data, response>>

\* Second Pokemon's turn, up to the awaited type-effectiveness lookup
SecondTurn ==
    /\ pc = "second_turn"
    /\ Gate(second_pokemon, current_hp[1] > 0 /\ current_hp[2] > 0,
            "second_attack", "end_of_turn")
    /\ UNCHANGED <<current_hp, turn_count, turns, first_pokemon, second_pokemon,
                   result, stub_answer, ret, hist, request, suspended, data, response>>

\* Second Pokemon's attack: the damage and where it is subtracted
SecondAttack ==
    /\ pc = "second_attack"
    /\ LET eff == get_type_effectiveness(move.type, pokemon[first_pokemon].types)
       IN  \E d \in Draws(move) :
             LET r == calculate_damage(pokemon[second_pokemon], pokemon[first_pokemon],
                                       move, eff, d)
                 after == [pokemon EXCEPT ![first_pokemon] = r.defender]
                 on_two == after[second_pokemon] = after[1]
                 target_name == IF on_two THEN after[first_pokemon].name
                                ELSE after[1].name
             IN  /\ pokemon' = after
                 /\ current_hp' = IF on_two
                                    THEN [current_hp EXCEPT ![2] = HpAfter(@, r.damage)]
                                    ELSE [current_hp EXCEPT ![1] = HpAfter(@, r.damage)]
                 /\ turn_details' = AddAction(turn_details,
                        AttackAction(after[second_pokemon].name, move, r, target_name))
    /\ move' = NoMove
    /\ pc' = "end_of_turn"
    /\ UNCHANGED <<turn_count, turns, first_pokemon, second_pokemon, result, stub_answer,
                   ret, hist, request, suspended, data, response>>

\* One pass of the end-of-turn loop, for pkmn = the object i; s holds
\* the HP counters and the round's record.
StatusDamageStep(s, i) ==
    IF (PokemonEq(i, 1) /\ s.hp[1] > 0) \/ (PokemonEq(i, 2) /\ s.hp[2] > 0)
      THEN LET sd == process_status_damage(pokemon[i]) IN
           IF sd.damage > 0
             THEN [hp |-> IF PokemonEq(i, 1)
                            THEN [s.hp EXCEPT ![1] = HpAfter(@, sd.damage)]
                            ELSE [s.hp EXCEPT ![2] = HpAfter(@, sd.damage)],
                   td |-> AddAction(s.td, [kind |-> "status_damage",
                                           who |-> pokemon[i].name,
                                           msgs |-> sd.messages])]
             ELSE s
      ELSE s

\* Process end-of-turn status effects, append the record, final HP check
EndOfTurn ==
    /\ pc = "end_of_turn"
    /\ LET s0 == [hp |-> current_hp, td |-> turn_details]
           s2 == StatusDamageStep(StatusDamageStep(s0, 1), 2)
       IN  /\ current_hp' = s2.hp
           /\ turn_details' = s2.td
           /\ turns' = Append(turns, s2.td.turn)
           /\ pc' = IF s2.hp[1] <= 0 \/ s2.hp[2] <= 0 THEN "after_loop" ELSE "loop"
    /\ UNCHANGED <<pokemon, turn_count, first_pokemon, second_pokemon, move,
                   result, stub_answer, ret, hist, request, suspended, data, response>>

\* Determine winner
Finish ==
    /\ pc = "after_loop" \/ (pc = "loop" /\ ~LoopCondition)
    /\ LET winner == IF current_hp[1] > 0 THEN pokemon[1].name
                     ELSE IF current_hp[2] > 0 THEN pokemon[2].name
                     ELSE None
       IN  result' = [winner |-> winner, turns |-> turns,
                      battle_summary |-> IF winner # None
                                           THEN <<"won", winner, Len(turns)>>
                                           ELSE <<"draw">>]
    /\ pc' = "done"
    /\ UNCHANGED <<pokemon, current_hp, turn_count, turns, turn_details, first_pokemon,
                   second_pokemon, move, stub_answer, ret, hist,
                   request, suspended, data, response>>

Next ==
    \/ StartRound
    \/ FirstTurn
    \/ FirstAttack
    \/ CheckOver
    \/ SecondTurn
    \/ SecondAttack
    \/ EndOfTurn
    \/ Finish

Init == BattleInit

Spec == Init /\ [][Next]_vars

\* simulate_battle runs to completion once called: a step that can be
\* taken is taken
FairSpec == Spec /\ WF_vars(Next)

\* ------------------------------------------------------------------------
\* Unit-level run of the StatusEffectManager: any sequence of
\* apply_status_effect, can_move and process_status_damage calls on one
\* combatant (pokemon[1]) that starts with no status.
MaxCalls == 4

StatusMaxHps == {1, 15, 16, 17, 200}

NoSleep == [dur |-> 0, log |-> <<>>, woke |-> 0, clean |-> TRUE]

StatusInit ==
    /\ \E h \in StatusMaxHps :
         pokemon = [i \in 1..2 |->
                      Pokemon("subject", h, 10, 10, 10, 10, 10, <<"normal">>, <<tackle>>)]
    /\ current_hp = [i \in 1..2 |-> pokemon[i].hp]
    /\ turn_count = 0
    /\ turns = <<>>
    /\ turn_details = NoTurn
    /\ first_pokemon = 0
    /\ second_pokemon = 0
    /\ move = NoMove
    /\ pc = "status_calls"
    /\ result = NoResult
    /\ stub_answer = None
    /\ ret = [call |-> None]
    /\ hist = NoSleep
    /\ request = NoRequest
    /\ suspended = NoFrame
    /\ data = NoData
    /\ response = NoResponse

BattleVars == <<current_hp, turn_count, turns, turn_details, first_pokemon,
                second_pokemon, move, pc, result, stub_answer, request, suspended, data, response>>

\* hist after an apply_status_effect call: a new sleep starts a new
\* observation, clean when the combatant holds no confusion; any other
\* condition added afterwards ends the observation
Unclean(dur) == [dur |-> dur, log |-> <<>>, woke |-> 0, clean |-> FALSE]

HistAfterApply(r, sleep_draw) ==
    IF r.msg = "already" THEN hist
    ELSE IF r.status = SLEEP
      THEN IF In(CONFUSION, pokemon[1].status_effects)
             THEN Unclean(sleep_draw)
             ELSE [dur |-> sleep_draw, log |-> <<>>, woke |-> 0, clean |-> TRUE]
    ELSE IF hist.dur > 0 THEN Unclean(hist.dur)
    ELSE hist

\* hist after a can_move call: what the call answered, for the first
\* MaxCalls calls after the sleep was applied
HistAfterCanMove(g) ==
    IF hist.dur > 0 /\ hist.clean /\ Len(hist.log) < MaxCalls
      THEN [hist EXCEPT !.log = Append(@, g.can),
                        !.woke = @ + (IF In("woke_up", g.msg) THEN 1 ELSE 0)]
      ELSE hist

ApplyStatus ==
    /\ pc = "status_calls"
    /\ \E status \in StatusEffect, sleep_draw \in SleepDraws, confusion_draw \in ConfusionDraws :
         /\ (status # SLEEP => sleep_draw = 1)
         /\ (status # CONFUSION => confusion_draw = 2)
         /\ LET r == apply_status_effect(pokemon[1], status, sleep_draw, confusion_draw)
            IN  /\ pokemon' = [pokemon EXCEPT ![1] = r.pokemon]
                /\ ret' = [call |-> "apply_status_effect", status |-> status, msg |-> r.msg]
                /\ hist' = HistAfterApply(r, sleep_draw)
    /\ UNCHANGED BattleVars

CanMove ==
    /\ pc = "status_calls"
    /\ \E rolls \in Rolls :
         LET g == can_move(pokemon[1], rolls)
         IN  /\ pokemon' = [pokemon EXCEPT ![1] = g.pokemon]
             /\ ret' = [call |-> "can_move", can |-> g.can, msg |-> g.msg]
             /\ hist' = HistAfterCanMove(g)
    /\ UNCHANGED BattleVars

ProcessStatusDamage ==
    /\ pc = "status_calls"
    /\ LET sd == process_status_damage(pokemon[1])
       IN  ret' = [call |-> "process_status_damage", damage |-> sd.damage,
                   messages |-> sd.messages]
    /\ UNCHANGED <<pokemon, hist>>
    /\ UNCHANGED BattleVars

StatusNext ==
    \/ ApplyStatus
    \/ CanMove
    \/ ProcessStatusDamage

StatusSpec == StatusInit /\ [][StatusNext]_vars

\* ------------------------------------------------------------------------
\* Unit-level run of _calculate_damage: one call, for an attacker
\* (pokemon[1]), a defender (pokemon[2]), a move and the answer of a
\* stubbed type-effectiveness provider.
DamageStats == {5, 12, 60}

DamageMoves == {tackle, ember, nuzzle, splash}

StubAnswers ==
    { [num |-> 0, den |-> 1], [num |-> 1, den |-> 4], [num |-> 1, den |-> 2],
      [num |-> 1, den |-> 1], [num |-> 2, den |-> 1], [num |-> 4, den |-> 1] }

DamageInit ==
    /\ \E a \in DamageStats, b \in DamageStats, burned \in BOOLEAN,
          ty \in {<<"normal">>, <<"water", "fire">>} :
         LET attacker == Pokemon("attacker", 60, a, 10, a, 10, 10, ty, <<>>)
             defender == Pokemon("defender", 60, 10, b, 10, b, 10, <<"normal">>, <<>>)
         IN  pokemon = (1 :> (IF burned
                                THEN apply_status_effect(attacker, BURN, 1, 2).pokemon
                                ELSE attacker))
                       @@ (2 :> defender)
    /\ move \in DamageMoves
    /\ stub_answer \in StubAnswers
    /\ current_hp = [i \in 1..2 |-> pokemon[i].hp]
    /\ turn_count = 0
    /\ turns = <<>>
    /\ turn_details = NoTurn
    /\ first_pokemon = 0
    /\ second_pokemon = 0
    /\ pc = "damage_call"
    /\ result = NoResult
    /\ ret = [call |-> None]
    /\ hist = NoSleep
    /\ request = NoRequest
    /\ suspended = NoFrame
    /\ data = NoData
    /\ response = NoResponse

CalculateDamage ==
    /\ pc = "damage_call"
    /\ \E d \in Draws(move) :
         LET r == calculate_damage(pokemon[1], pokemon[2], move, stub_answer, d)
         IN  /\ ret' = [call |-> "_calculate_damage", damage |-> r.damage,
                        is_critical |-> r.is_critical,
                        status_inflicted |-> r.status_inflicted, factor |-> d.factor]
             /\ pokemon' = [pokemon EXCEPT ![2] = r.defender]
    /\ pc' = "damage_done"
    /\ UNCHANGED <<current_hp, turn_count, turns, turn_details, first_pokemon,
                   second_pokemon, move, result, stub_answer, hist,
                   request, suspended, data, response>>

DamageNext == CalculateDamage

DamageSpec == DamageInit /\ [][DamageNext]_vars

\* ------------------------------------------------------------------------
\* prepare_pokemon_for_battle
\* A value that may be null (None) is a sequence of at most one element.
Null == <<>>
Some(v) == <<v>>

\* the truth value Python gives to a nullable number
Truthy(opt) == opt # Null /\ opt[1] # 0

\* int(opt or default)
OrDefault(opt, default) == IF Truthy(opt) THEN opt[1] ELSE default

\* int(num / den): the float's fraction is cut off, towards zero
IntOf(num, den) == IF num >= 0 THEN num \div den ELSE -((-num) \div den)

\* the default of the level parameter of calculate_hp and calculate_stat
default_level == 50

\* int(((base_hp * 2) * level / 100) + level + 10)
calculate_hp(base_hp) ==
    IntOf((base_hp * 2) * default_level + (default_level + 10) * 100, 100)

\* The scaling of the other stats with the terms of the HP formula.
CalculateStatAsHp(base_stat) ==
    IntOf((base_stat * 2) * default_level + (default_level + 10) * 100, 100)

\* int(((base_stat * 2) * level / 100) + 5)
calculate_stat(base_stat) ==
    IntOf((base_stat * 2) * default_level + 5 * 100, 100)

\* stats.get(key, default)
StatGet(stats, key, default) == IF key \in DOMAIN stats THEN stats[key] ELSE default

\* The move list taken whole.
FirstFourUnbounded(s) == s

\* data.get('moves', [])[:4]
FirstFour(s) == SubSeq(s, 1, IF Len(s) < 4 THEN Len(s) ELSE 4)

\* the list comprehension over the first four moves: those of a power that
\* is neither null nor 0, in the shape simulate_battle reads
RECURSIVE PreparedMoves(_, _)
PreparedMoves(ms, i) ==
    IF i > Len(ms) THEN <<>>
    ELSE LET m == ms[i].move
         IN  (IF Truthy(m.power)
                THEN << [name |-> m.name, type |-> m.type.name,
                         power |-> OrDefault(m.power, 0),
                         accuracy |-> OrDefault(m.accuracy, 100),
                         damage_class |-> m.movedamageclass.name] >>
                ELSE <<>>)
             \o PreparedMoves(ms, i + 1)

prepare_pokemon_for_battle(d) ==
    LET stats == d.stats
        base_hp == StatGet(stats, "hp", 35)
        base_attack == StatGet(stats, "attack", 50)
        base_defense == StatGet(stats, "defense", 50)
        base_sp_attack == StatGet(stats, "special-attack", 50)
        base_sp_defense == StatGet(stats, "special-defense", 50)
        base_speed == StatGet(stats, "speed", 50)
        scaled_hp == calculate_hp(base_hp)
    IN  [name |-> d.identifier, hp |-> scaled_hp, max_hp |-> scaled_hp,
         attack |-> calculate_stat(base_attack),
         defense |-> calculate_stat(base_defense),
         special_attack |-> calculate_stat(base_sp_attack),
         special_defense |-> calculate_stat(base_sp_defense),
         speed |-> calculate_stat(base_speed),
         types |-> d.types,
         moves |-> PreparedMoves(FirstFour(d.moves), 1),
         status_effects |-> <<>>, status_turns |-> EmptyDict]

\* one row of the "moves" list get_pokemon_by_name answers
FetchedMove(name, power, accuracy, type, damage_class) ==
    [move |-> [name |-> name, power |-> power, accuracy |-> accuracy,
               type |-> [name |-> type],
               movedamageclass |-> [name |-> damage_class]]]

\* what get_pokemon_by_name answers for a name it knows
Fetched(identifier, stats, types, moves) ==
    [found |-> TRUE, identifier |-> identifier, stats |-> stats, types |-> types,
     moves |-> moves]

\* the two locals pokemon1 and pokemon2 before they are prepared
Unprepared == Pokemon(None, 0, 0, 0, 0, 0, 0, <<>>, <<>>)

\* ------------------------------------------------------------------------
\* Unit-level run of prepare_pokemon_for_battle: one call on a fetched
\* record whose base stats are present or missing one by one.
StatNames == {"hp", "attack", "defense", "special-attack", "special-defense", "speed"}

BaseStatChoices ==
    [hp : {Null, Some(0), Some(1), Some(45), Some(255)},
     attack : {Null, Some(0), Some(49), Some(255)},
     defense : {Null, Some(49)},
     special_attack : {Null, Some(65)},
     special_defense : {Null, Some(65)},
     speed : {Null, Some(0), Some(45)}]

\* the "stats" dict holding the stats that were chosen to be present
StatsOf(c) ==
    LET choice == ("hp" :> c.hp) @@ ("attack" :> c.attack) @@ ("defense" :> c.defense)
                  @@ ("special-attack" :> c.special_attack)
                  @@ ("special-defense" :> c.special_defense) @@ ("speed" :> c.speed)
    IN  [k \in {n \in StatNames : choice[n] # Null} |-> choice[k][1]]

FetchedMoveLists ==
    { <<>>,
      << FetchedMove("growl", Null, Some(100), "normal", "status"),
         FetchedMove("tackle", Some(40), Some(100), "normal", "physical"),
         FetchedMove("splash", Some(0), Null, "normal", "status"),
         FetchedMove("ember", Some(40), Null, "fire", "special"),
         FetchedMove("nuzzle", Some(20), Some(100), "electric", "physical") >>,
      << FetchedMove("tackle", Some(40), Some(100), "normal", "physical"),
         FetchedMove("ember", Some(40), Some(100), "fire", "special"),
         FetchedMove("nuzzle", Some(20), Some(100), "electric", "physical"),
         FetchedMove("poison-sting", Some(15), Some(100), "poison", "physical"),
         FetchedMove("scratch", Some(40), Some(100), "normal", "physical"),
         FetchedMove("growl", Null, Some(100), "normal", "status") >> }

PrepareInit ==
    /\ \E c \in BaseStatChoices, ms \in FetchedMoveLists :
         data = (1 :> Fetched("subject", StatsOf(c), <<"normal">>, ms))
                @@ (2 :> NoData[2])
    /\ request = NoRequest
    /\ suspended = NoFrame
    /\ response = NoResponse
    /\ pokemon = [i \in 1..2 |-> Unprepared]
    /\ current_hp = [i \in 1..2 |-> 0]
    /\ turn_count = 0
    /\ turns = <<>>
    /\ turn_details = NoTurn
    /\ first_pokemon = 0
    /\ second_pokemon = 0
    /\ move = NoMove
    /\ pc = "prepare_call"
    /\ result = NoResult
    /\ stub_answer = None
    /\ ret = [call |-> None]
    /\ hist = NoSleep

Prepare ==
    /\ pc = "prepare_call"
    /\ pokemon' = [pokemon EXCEPT ![1] = prepare_pokemon_for_battle(data[1])]
    /\ pc' = "prepare_done"
    /\ UNCHANGED <<current_hp, turn_count, turns, turn_details, first_pokemon,
                   second_pokemon, move, result, stub_answer, ret, hist, request, suspended,
                   data, response>>

PrepareNext == Prepare

PrepareSpec == PrepareInit /\ [][PrepareNext]_vars

\* ------------------------------------------------------------------------
\* BattleSimulationTool: simulate_pokemon_battle, from the request to the
\* dict it returns; simulate_battle runs in between.
\* str.lower() on the names that are asked for
Lower ==
    ("Rattata" :> "rattata") @@ ("magikarp" :> "magikarp") @@
    ("MissingNo" :> "missingno") @@ ("agumon" :> "agumon")

RequestNames == DOMAIN Lower

\* the rows of the data provider
Pokedex ==
    ("rattata" :>
       Fetched("rattata",
               ("hp" :> 30) @@ ("attack" :> 56) @@ ("defense" :> 35) @@
               ("special-attack" :> 25) @@ ("special-defense" :> 35) @@ ("speed" :> 72),
               <<"normal">>,
               << FetchedMove("tail-whip", Null, Some(100), "normal", "status"),
                  FetchedMove("tackle", Some(40), Some(100), "normal", "physical") >>))
    @@
    ("magikarp" :>
       Fetched("magikarp",
               ("hp" :> 20) @@ ("attack" :> 10) @@ ("defense" :> 55) @@
               ("special-attack" :> 15) @@ ("special-defense" :> 20) @@ ("speed" :> 80),
               <<"water">>,
               << FetchedMove("splash", Null, Null, "normal", "status") >>))

\* PokemonDatabase.get_pokemon_by_name: None when there is no row
get_pokemon_by_name(name) ==
    IF name \in DOMAIN Pokedex THEN Pokedex[name] ELSE [found |-> FALSE]

\* The two checks in the other order.
FirstMissingSecondFirst(d1, d2) ==
    IF ~d2.found THEN 2 ELSE IF ~d1.found THEN 1 ELSE 0

\* if not pokemon1_data: ... / if not pokemon2_data: ...  (0: both found)
FirstMissing(d1, d2) ==
    IF ~d1.found THEN 1 ELSE IF ~d2.found THEN 2 ELSE 0

\* {"error": f"Pokemon not found: {name}"}
NotFoundError(name) == [kind |-> "error", error |-> <<"Pokemon not found", name>>]

\* {"error": f"Battle simulation failed: {str(e)}"}
FailedError(e) == [kind |-> "error", error |-> <<"Battle simulation failed", e>>]

ToolInit ==
    /\ request \in [1..2 -> RequestNames]
    /\ suspended = NoFrame
    /\ data = NoData
    /\ response = NoResponse
    /\ pokemon = [i \in 1..2 |-> Unprepared]
    /\ current_hp = [i \in 1..2 |-> 0]
    /\ turn_count = 0
    /\ turns = <<>>
    /\ turn_details = NoTurn
    /\ first_pokemon = 0
    /\ second_pokemon = 0
    /\ move = NoMove
    /\ pc = "tool_fetch"
    /\ result = NoResult
    /\ stub_answer = None
    /\ ret = None
    /\ hist = None

\* Fetch Pokemon data
ToolFetch ==
    /\ pc = "tool_fetch"
    /\ data' = [i \in 1..2 |-> get_pokemon_by_name(Lower[request[i]])]
    /\ pc' = "tool_fetched"
    /\ UNCHANGED <<pokemon, current_hp, turn_count, turns, turn_details, first_pokemon,
                   second_pokemon, move, result, stub_answer, ret, hist, request, suspended,
                   response>>

\* return {"error": "Pokemon not found: ..."}
ToolNotFound ==
    /\ pc = "tool_fetched"
    /\ FirstMissing(data[1], data[2]) # 0
    /\ response' = NotFoundError(request[FirstMissing(data[1], data[2])])
    /\ pc' = "tool_done"
    /\ UNCHANGED <<pokemon, current_hp, turn_count, turns, turn_details, first_pokemon,
                   second_pokemon, move, result, stub_answer, ret, hist,
                   request, suspended, data>>

\* Prepare Pokemon with level scaling and enter simulate_battle
ToolSimulate ==
    /\ pc = "tool_fetched"
    /\ FirstMissing(data[1], data[2]) = 0
    /\ pokemon' = [i \in 1..2 |-> prepare_pokemon_for_battle(data[i])]
    /\ current_hp' = [i \in 1..2 |-> pokemon'[i].hp]
    /\ turn_count' = 0
    /\ turns' = <<>>
    /\ pc' = "loop"
    /\ UNCHANGED <<turn_details, first_pokemon, second_pokemon, move, result,
                   stub_answer, ret, hist, request, suspended, data, response>>

\* The awaited lookup raising and the failure being swallowed: the attack
\* is given up and the round goes on.
ToolLookupFailsNeutral ==
    /\ pc \in {"first_attack", "second_attack"}
    /\ stub_answer' = "unavailable"
    /\ move' = NoMove
    /\ pc' = IF pc = "first_attack" THEN "check" ELSE "end_of_turn"
    /\ UNCHANGED <<pokemon, current_hp, turn_count, turns, turn_details, first_pokemon,
                   second_pokemon, result, ret, hist, request, suspended, data, response>>

\* The awaited type-effectiveness lookup of an attack raises: nothing in
\* _calculate_damage or simulate_battle catches it, and the tool's
\* except clause returns the failure.
ToolLookupFails ==
    /\ pc \in {"first_attack", "second_attack"}
    /\ stub_answer' = "unavailable"
    /\ response' = FailedError("unavailable")
    /\ pc' = "tool_done"
    /\ UNCHANGED <<pokemon, current_hp, turn_count, turns, turn_details, first_pokemon,
                   second_pokemon, move, result, ret, hist, request, suspended, data>>

\* Format: the dict built from the BattleResult
ToolFormat ==
    /\ pc = "done"
    /\ \E detailed \in BOOLEAN :
         response' = [kind |-> "result",
                      pokemon1 |-> pokemon[1].name, pokemon2 |-> pokemon[2].name,
                      winner |-> result.winner, total_turns |-> Len(result.turns),
                      battle_summary |-> result.battle_summary,
                      detailed_turns |-> IF detailed THEN Some(result.turns) ELSE Null]
    /\ pc' = "tool_done"
    /\ UNCHANGED <<pokemon, current_hp, turn_count, turns, turn_details, first_pokemon,
                   second_pokemon, move, result, stub_answer, ret, hist,
                   request, suspended, data>>

ToolNext ==
    \/ ToolFetch
    \/ ToolNotFound
    \/ ToolSimulate
    \/ StartRound
    \/ FirstTurn
    \/ FirstAttack
    \/ CheckOver
    \/ SecondTurn
    \/ SecondAttack
    \/ EndOfTurn
    \/ Finish
    \/ ToolLookupFails
    \/ ToolFormat

ToolSpec == ToolInit /\ [][ToolNext]_vars

\* ------------------------------------------------------------------------
\* Two simulate_battle calls on one BattleSimulator, run by one event loop.
\* The call that runs has its locals in the variables of the battle; the
\* other one is suspended at an await (or has not run yet, or is over)
\* and its locals, the two Pokemon objects it was given included, are
\* kept in suspended.  The BattleSimulator itself holds db and
\* status_manager only, and neither is written by a battle.
Frame(id) ==
    [id |-> id, pokemon |-> pokemon, current_hp |-> current_hp,
     turn_count |-> turn_count, turns |-> turns, turn_details |-> turn_details,
     first_pokemon |-> first_pokemon, second_pokemon |-> second_pokemon,
     move |-> move, pc |-> pc, result |-> result]

\* the locals of a call that was given the combatants ps and has not run
EntryFrame(id, ps) ==
    [id |-> id, pokemon |-> ps, current_hp |-> [i \in 1..2 |-> ps[i].hp],
     turn_count |-> 0, turns |-> <<>>, turn_details |-> NoTurn,
     first_pokemon |-> 0, second_pokemon |-> 0,
     move |-> NoMove, pc |-> "loop", result |-> NoResult]

RosterMember(name) == CHOOSE p \in Roster : p.name = name

\* the combatants the two calls are given: objects of their own
ConcurrentPairs ==
    { <<RosterMember("pikachu"), RosterMember("magikarp")>>,
      <<RosterMember("magikarp"), RosterMember("weedle")>>,
      <<RosterMember("charmander"), RosterMember("metapod")>> }

ConcurrentInit ==
    /\ pokemon \in ConcurrentPairs
    /\ current_hp = [i \in 1..2 |-> pokemon[i].hp]
    /\ suspended \in {EntryFrame(2, ps) : ps \in ConcurrentPairs}
    /\ turn_count = 0
    /\ turns = <<>>
    /\ turn_details = NoTurn
    /\ first_pokemon = 0
    /\ second_pokemon = 0
    /\ move = NoMove
    /\ pc = "loop"
    /\ result = NoResult
    /\ stub_answer = None
    /\ ret = None
    /\ hist = None
    /\ request = NoRequest
    /\ data = NoData
    /\ response = NoResponse

\* The event loop handing control over with the two calls using the same
\* two Pokemon objects.
SwitchSharingCombatants ==
    /\ pc \in {"first_attack", "second_attack", "done"}
    /\ suspended.pc # "done"
    /\ suspended' = Frame(3 - suspended.id)
    /\ pokemon' = pokemon
    /\ current_hp' = suspended.current_hp
    /\ turn_count' = suspended.turn_count
    /\ turns' = suspended.turns
    /\ turn_details' = suspended.turn_details
    /\ first_pokemon' = suspended.first_pokemon
    /\ second_pokemon' = suspended.second_pokemon
    /\ move' = suspended.move
    /\ pc' = suspended.pc
    /\ result' = suspended.result
    /\ UNCHANGED <<stub_answer, ret, hist, request, data, response>>

\* The event loop hands control to the other call: the running call is at
\* the awaited type-effectiveness lookup of an attack, or has returned.
Switch ==
    /\ pc \in {"first_attack", "second_attack", "done"}
    /\ suspended.pc # "done"
    /\ suspended' = Frame(3 - suspended.id)
    /\ pokemon' = suspended.pokemon
    /\ current_hp' = suspended.current_hp
    /\ turn_count' = suspended.turn_count
    /\ turns' = suspended.turns
    /\ turn_details' = suspended.turn_details
    /\ first_pokemon' = suspended.first_pokemon
    /\ second_pokemon' = suspended.second_pokemon
    /\ move' = suspended.move
    /\ pc' = suspended.pc
    /\ result' = suspended.result
    /\ UNCHANGED <<stub_answer, ret, hist, request, data, response>>

ConcurrentNext ==
    \/ Switch
    \/ StartRound
    \/ FirstTurn
    \/ FirstAttack
    \/ CheckOver
    \/ SecondTurn
    \/ SecondAttack
    \/ EndOfTurn
    \/ Finish

ConcurrentSpec == ConcurrentInit /\ [][ConcurrentNext]_vars

\* ------------------------------------------------------------------------
\* Properties

Last(s) == s[Len(s)]

\* C1: simulate_battle terminates for every pair of combatants and every
\* sequence of draws, the round counter never exceeds 100 and the returned
\* log holds at most 100 TurnRecords.
C1_TerminatesWithin100 ==
    /\ <>(pc = "done")
    /\ [](/\ turn_count <= max_turns
          /\ Len(turns) <= max_turns
          /\ (pc = "done" => Len(result.turns) <= max_turns))

\* a battle that was stopped by the bound: 100 records returned
C1_Witness == pc = "done" /\ Len(result.turns) = max_turns /\ turn_count = max_turns

\* C2: when the battle stops after 100 rounds with both combatants above
\* 0 HP, the winner is none and the summary reports a draw.
C2_CapIsDraw ==
    (pc = "done" /\ turn_count = max_turns /\ current_hp[1] > 0 /\ current_hp[2] > 0)
      => (result.winner = None /\ result.battle_summary = <<"draw">>)

\* C3: both combatants are never at 0 HP together, and a result without a
\* winner comes only from the 100-round bound.
C3_NoHpExhaustionTie ==
    /\ ~(current_hp[1] = 0 /\ current_hp[2] = 0)
    /\ (pc = "done" /\ result.winner = None)
         => (turn_count = max_turns /\ current_hp[1] > 0 /\ current_hp[2] > 0)

\* C4: an attack subtracts its damage from the HP of the combatant that is
\* not attacking and leaves the attacker's own HP as it was, for the first
\* and for the second actor of a round.
C4_AttackHitsTheOther ==
    [][(pc = "first_attack" \/ pc = "second_attack") =>
         LET a == IF pc = "first_attack" THEN first_pokemon ELSE second_pokemon
             o == 3 - a
             dealt == Last(turn_details'.actions).damage
         IN  /\ current_hp'[a] = current_hp[a]
             /\ current_hp'[o] = Max(0, current_hp[o] - dealt)]_vars

\* C5: each combatant's current HP stays within 0 .. max HP.
C5_HpInRange ==
    \A i \in 1..2 : 0 <= current_hp[i] /\ current_hp[i] <= pokemon[i].max_hp

\* an attack that dealt more than the target had left, and status damage
\* taken in a round
C5_Witness ==
    /\ pc = "after_loop"
    /\ \E i \in 1..2 : current_hp[i] = 0
    /\ \E k \in DOMAIN turn_details.actions :
         /\ turn_details.actions[k].kind = "attack"
         /\ turn_details.actions[k].damage > 12
    /\ \E k \in DOMAIN turn_details.actions :
         turn_details.actions[k].kind = "status_damage"

MajorsHeld(p) ==
    {i \in DOMAIN p.status_effects : In(p.status_effects[i], major_statuses)}

ConfusionsHeld(p) ==
    {i \in DOMAIN p.status_effects : p.status_effects[i] = CONFUSION}

\* C6: after any sequence of apply_status_effect, can_move and end-of-round
\* calls from no status, at most one major condition is held, with or
\* without confusion.
C6_OneMajorCondition ==
    /\ Cardinality(MajorsHeld(pokemon[1])) <= 1
    /\ Cardinality(ConfusionsHeld(pokemon[1])) <= 1

\* burn applied to a confused combatant that had been put to sleep
C6_Witness ==
    /\ ret.call = "apply_status_effect" /\ ret.status = BURN /\ ret.msg = "now"
    /\ hist.dur = 3
    /\ pokemon[1].status_effects = <<CONFUSION, BURN>>

\* C7: a sleep of duration 2 blocks the next 2 can_move calls, lets the
\* combatant act from the 3rd call on, and "woke up" is reported once.
C7_SleepOfTwoBlocksTwoRounds ==
    (hist.clean /\ hist.dur = 2) =>
      /\ \A k \in DOMAIN hist.log : (k <= 2 => ~hist.log[k]) /\ (k >= 3 => hist.log[k])
      /\ hist.woke <= 1
      /\ (Len(hist.log) >= 3 => hist.woke = 1)

\* C8: every can_move call on a confused combatant takes one off the
\* confusion counter and clears confusion at 0, whatever major condition
\* is held with it.
C8_ConfusionAlwaysTicks ==
    [][(ret'.call = "can_move" /\ In(CONFUSION, pokemon[1].status_effects)) =>
         LET t == DictGet(pokemon[1].status_turns, CONFUSION, 0)
         IN  IF t - 1 <= 0
               THEN /\ ~In(CONFUSION, pokemon'[1].status_effects)
                    /\ CONFUSION \notin DOMAIN pokemon'[1].status_turns
               ELSE /\ In(CONFUSION, pokemon'[1].status_effects)
                    /\ DictGet(pokemon'[1].status_turns, CONFUSION, 0) = t - 1]_vars

\* C9: a move of positive power always deals at least 1.
C9_DamageAtLeastOne ==
    (pc = "damage_done" /\ move.power > 0) => ret.damage >= 1

\* a multiplier of 0.0, and a burned attacker's physical move
C9_Witness ==
    /\ pc = "damage_done"
    /\ move = nuzzle
    /\ stub_answer.num = 0
    /\ In(BURN, pokemon[1].status_effects)
    /\ ret.damage = 1
    /\ ret.status_inflicted = PARALYSIS

\* C10: in every round the combatant with the higher effective speed
\* (halved under paralysis) acts first, pokemon1 on a tie, and the other
\* one acts second.
C10_TurnOrder ==
    pc = "first_turn" =>
      LET speed1 == IF In(PARALYSIS, pokemon[1].status_effects)
                      THEN pokemon[1].speed \div 2 ELSE pokemon[1].speed
          speed2 == IF In(PARALYSIS, pokemon[2].status_effects)
                      THEN pokemon[2].speed \div 2 ELSE pokemon[2].speed
      IN  /\ (speed1 > speed2 => first_pokemon = 1)
          /\ (speed1 < speed2 => first_pokemon = 2)
          /\ (speed1 = speed2 => first_pokemon = 1)
          /\ second_pokemon = 3 - first_pokemon

\* a later round in which paralysis has turned the order around
C10_Witness ==
    /\ pc = "first_turn"
    /\ turn_count > 1
    /\ pokemon[2].speed > pokemon[1].speed
    /\ In(PARALYSIS, pokemon[2].status_effects)
    /\ first_pokemon = 1

\* the only status the moves of the combatant j can inflict is paralysis
OnlyParalysisFrom(j) ==
    \A k \in DOMAIN pokemon[j].moves :
      get_move_status_chance(pokemon[j].moves[k].name)[1] \in {None, PARALYSIS}

\* C11: where the opponent's moves can inflict no status but paralysis, a
\* combatant that holds paralysis holds it after every step of the battle
\* (can_move, an attack taken, the end of the round), and each round's
\* order is worked out from its halved speed.
C11_ParalysisPersists ==
    [][\A i \in 1..2 :
         (OnlyParalysisFrom(3 - i) /\ In(PARALYSIS, pokemon[i].status_effects)) =>
           /\ In(PARALYSIS, pokemon'[i].status_effects)
           /\ (pc = "loop" /\ pc' = "first_turn") =>
                LET o == 3 - i
                    halved == pokemon[i].speed \div 2
                    other == IF In(PARALYSIS, pokemon[o].status_effects)
                               THEN pokemon[o].speed \div 2 ELSE pokemon[o].speed
                IN  /\ (halved > other => first_pokemon' = i)
                    /\ (halved < other => first_pokemon' = o)
                    /\ (halved = other => first_pokemon' = 1)]_vars

\* the faster combatant, paralysed in the first round, acts second in the
\* second and in the third
C11_Witness ==
    /\ pc = "first_turn"
    /\ turn_count = 3
    /\ pokemon[1].name = "rattata" /\ pokemon[2].name = "pikachu"
    /\ In(PARALYSIS, pokemon[1].status_effects)
    /\ ~In(PARALYSIS, pokemon[2].status_effects)
    /\ first_pokemon = 2

\* the combatant i has no usable move: no move at all, or moves of power 0 only
NoUsableMove(i) == \A k \in DOMAIN pokemon[i].moves : pokemon[i].moves[k].power = 0

\* the actor of the turn being taken (0 outside the two turns)
TurnOf ==
    IF pc = "first_turn" THEN first_pokemon
    ELSE IF pc = "second_turn" THEN second_pokemon
    ELSE 0

\* the turn just taken added the "cannot attack" or "struggles helplessly"
\* message of the combatant a as the round's last action
CannotAttackLogged(a) ==
    /\ Len(turn_details'.actions) > Len(turn_details.actions)
    /\ Last(turn_details'.actions).kind \in {"no_moves", "struggles"}
    /\ Last(turn_details'.actions).who = pokemon[a].name

\* the turn just taken added only the message of the status that kept the
\* combatant a from acting
BlockedLogged(a) ==
    /\ Len(turn_details'.actions) = Len(turn_details.actions) + 1
    /\ Last(turn_details'.actions).kind = "status_msg"
    /\ Last(turn_details'.actions).who = pokemon[a].name
    /\ Last(turn_details'.actions).msgs \in
         {<<"paralyzed">>, <<"fast_asleep">>, <<"frozen_solid">>, <<"hurt_itself">>}

\* C12 as stated: a combatant with no usable move never reduces its
\* opponent's HP, and every one of its turns adds a "cannot attack" or
\* "struggles helplessly" message to the round's actions.
C12_EveryTurnLogsCannotAttack ==
    [][(TurnOf # 0 /\ NoUsableMove(TurnOf)) =>
         /\ pc' \notin {"first_attack", "second_attack"}
         /\ current_hp' = current_hp
         /\ CannotAttackLogged(TurnOf)]_vars

\* C12, amended: a combatant with no usable move never reduces its
\* opponent's HP (it never reaches an attack), and every one of its turns
\* in which no status keeps it from acting adds a "cannot attack" or
\* "struggles helplessly" message; a turn lost to a status adds that
\* status's message only.
C12_NoUsableMoveNeverAttacks ==
    [][/\ (TurnOf # 0 /\ NoUsableMove(TurnOf)) =>
            /\ pc' \notin {"first_attack", "second_attack"}
            /\ current_hp' = current_hp
            /\ CannotAttackLogged(TurnOf) \/ BlockedLogged(TurnOf)
       /\ pc = "first_attack" => ~NoUsableMove(first_pokemon)
       /\ pc = "second_attack" => ~NoUsableMove(second_pokemon)]_vars

\* a round in which one combatant "cannot attack" and the other
\* "struggles helplessly", both still at full HP in the second round
C12_Witness ==
    /\ pc = "end_of_turn"
    /\ turn_count = 2
    /\ \E k \in DOMAIN turn_details.actions : turn_details.actions[k].kind = "no_moves"
    /\ \E k \in DOMAIN turn_details.actions : turn_details.actions[k].kind = "struggles"
    /\ \A i \in 1..2 : current_hp[i] = pokemon[i].max_hp

\* C14: apply_status_effect with a condition already held changes neither
\* the conditions held nor any remaining-duration counter and answers
\* "already"; a second application right after the first changes nothing.
C14_ApplyHeldIsNoOp ==
    [][ret'.call = "apply_status_effect" =>
         /\ In(ret'.status, pokemon[1].status_effects) =>
              /\ pokemon'[1].status_effects = pokemon[1].status_effects
              /\ pokemon'[1].status_turns = pokemon[1].status_turns
              /\ pokemon' = pokemon
              /\ ret'.msg = "already"
         /\ (ret.call = "apply_status_effect" /\ ret.status = ret'.status) =>
              pokemon' = pokemon]_vars

\* confusion applied again to a combatant whose confusion counter has run
\* down to 1
C14_Witness ==
    /\ ret.call = "apply_status_effect"
    /\ ret.status = CONFUSION
    /\ ret.msg = "already"
    /\ DictGet(pokemon[1].status_turns, CONFUSION, 0) = 1

\* the condition s and its counter are with q what they are with p
SameCondition(p, q, s) ==
    /\ In(s, q.status_effects) <=> In(s, p.status_effects)
    /\ (s \in DOMAIN q.status_turns) <=> (s \in DOMAIN p.status_turns)
    /\ DictGet(q.status_turns, s, 0) = DictGet(p.status_turns, s, 0)

\* C15: applying a major condition that is not held removes every other
\* major condition with its counter and adds the new one, confusion and
\* its counter staying as they are; applying confusion that is not held
\* adds it, every major condition and its counter staying as they are.
C15_ApplyFrame ==
    [][(ret'.call = "apply_status_effect" /\ ~In(ret'.status, pokemon[1].status_effects)) =>
         LET p == pokemon[1]
             q == pokemon'[1]
             majors == Range(major_statuses)
         IN  /\ ret'.msg = "now"
             /\ In(ret'.status, q.status_effects)
             /\ IF ret'.status \in majors
                  THEN /\ \A m \in majors \ {ret'.status} :
                            /\ ~In(m, q.status_effects)
                            /\ m \notin DOMAIN q.status_turns
                       /\ SameCondition(p, q, CONFUSION)
                  ELSE /\ q.status_effects = Append(p.status_effects, CONFUSION)
                       /\ \A m \in majors : SameCondition(p, q, m)]_vars

\* confusion applied to a sleeping combatant whose sleep counter, drawn as
\* 3, has run down to 2
C15_Witness ==
    /\ ret.call = "apply_status_effect"
    /\ ret.status = CONFUSION
    /\ ret.msg = "now"
    /\ pokemon[1].status_effects = <<SLEEP, CONFUSION>>
    /\ DictGet(pokemon[1].status_turns, SLEEP, 0) = 2
    /\ hist.dur = 3

\* the largest max HP for which the damage formulas are compared
MaxHpChecked == 256

\* max(1, h // n), worked out from what floor division means
FloorShare(h, n) ==
    LET k == CHOOSE x \in 0..h : n * x <= h /\ h < n * (x + 1)
    IN  IF k >= 1 THEN k ELSE 1

\* the values the claim lists for max HP 1, 15, 16, 17 and 200
BurnTable == (1 :> 1) @@ (15 :> 1) @@ (16 :> 1) @@ (17 :> 1) @@ (200 :> 12)
PoisonTable == (1 :> 1) @@ (15 :> 1) @@ (16 :> 2) @@ (17 :> 2) @@ (200 :> 25)

\* C16: process_status_damage returns max(1, maxHP // 16) for burn plus
\* max(1, maxHP // 8) for poison (0 for neither) for every max HP from 1
\* up, the listed values for max HP 1, 15, 16, 17 and 200, and the call
\* changes neither HP nor status.
C16_StatusDamageValues ==
    [][ret'.call = "process_status_damage" =>
         LET p == pokemon[1]
             burned == In(BURN, p.status_effects)
             poisoned == In(POISON, p.status_effects)
             expected(h) == (IF burned THEN FloorShare(h, 16) ELSE 0)
                            + (IF poisoned THEN FloorShare(h, 8) ELSE 0)
         IN  /\ ret'.damage = expected(p.max_hp)
             /\ ret'.damage = (IF burned THEN BurnTable[p.max_hp] ELSE 0)
                              + (IF poisoned THEN PoisonTable[p.max_hp] ELSE 0)
             /\ \A h \in 1..MaxHpChecked :
                  process_status_damage([p EXCEPT !.max_hp = h]).damage = expected(h)
             /\ pokemon' = pokemon
             /\ current_hp' = current_hp]_vars

\* poison damage of 25 returned for a max HP of 200
C16_Witness ==
    /\ ret.call = "process_status_damage"
    /\ ret.damage = 25
    /\ pokemon[1].max_hp = 200
    /\ In(POISON, pokemon[1].status_effects)
    /\ current_hp[1] = 200

\* the attacker p without the type t
WithoutType(p, t) == [p EXCEPT !.types = SelectSeq(@, LAMBDA x : x # t)]

\* the attack just resolved was one of a move of the attacker's own type
SameTypeAttack ==
    /\ pc = "damage_done"
    /\ move.power > 0
    /\ In(move.type, pokemon[1].types)

\* what the same call returns, with the same critical-hit roll and random
\* factor, for the attacker without the move's type
PlainDamage ==
    calculate_damage(WithoutType(pokemon[1], move.type), pokemon[2], move, stub_answer,
                     [crit |-> ret.is_critical, factor |-> ret.factor, status |-> FALSE,
                      sleep |-> 1, confusion |-> 2]).damage

\* C17 as stated: with the rolls pinned, the attacker of the move's type
\* deals exactly 1.5 times the damage of the same attacker without it.
C17_StabExactlyOneAndAHalf ==
    SameTypeAttack => 2 * ret.damage = 3 * PlainDamage

\* C17, amended: with the rolls pinned, the attacker of the move's type
\* deals floor(1.5 * d) or floor(1.5 * d) + 1, d being the damage returned
\* for the same attacker without that type; the factor of 1.5 is exact
\* only before the truncation to an integer, the burn halving and the
\* floor of 1.
C17_StabWithinTruncation ==
    SameTypeAttack =>
      /\ (3 * PlainDamage) \div 2 <= ret.damage
      /\ ret.damage <= (3 * PlainDamage) \div 2 + 1

\* a same-type attack that returned one more than floor(1.5 * d)
C17_Witness ==
    /\ SameTypeAttack
    /\ PlainDamage >= 3
    /\ ret.damage = (3 * PlainDamage) \div 2 + 1
    /\ 2 * ret.damage # 3 * PlainDamage

\* C18: prepare_pokemon_for_battle gives hp = floor(base_hp * 2 * 50 / 100)
\* + 50 + 10 and stat = floor(base * 2 * 50 / 100) + 5 for the five other
\* stats, with base 35 for a missing hp and 50 for any other missing
\* stat, hp equal to max_hp, no status condition and no duration counter.
C18_Level50Scaling ==
    pc = "prepare_done" =>
      LET stats == data[1].stats
          base(k, missing) == IF k \in DOMAIN stats THEN stats[k] ELSE missing
          scaled(k) == (base(k, 50) * 2 * 50) \div 100 + 5
          p == pokemon[1]
      IN  /\ p.hp = (base("hp", 35) * 2 * 50) \div 100 + 50 + 10
          /\ p.max_hp = p.hp
          /\ p.attack = scaled("attack")
          /\ p.defense = scaled("defense")
          /\ p.special_attack = scaled("special-attack")
          /\ p.special_defense = scaled("special-defense")
          /\ p.speed = scaled("speed")
          /\ p.status_effects = <<>>
          /\ DOMAIN p.status_turns = {}

\* a record without hp and speed and with a base attack of 255
C18_Witness ==
    /\ pc = "prepare_done"
    /\ DOMAIN data[1].stats = {"attack", "defense"}
    /\ data[1].stats["attack"] = 255
    /\ pokemon[1].hp = 95
    /\ pokemon[1].attack = 260
    /\ pokemon[1].speed = 55
    /\ Len(pokemon[1].moves) = 2

\* the data provider has no row for the i-th name of the request
Unknown(i) == Lower[request[i]] \notin DOMAIN Pokedex

\* C19: a request naming a combatant the data provider does not know (the
\* first, the second or both) is answered with the "not found" error for
\* that name, the first one when both are unknown, and simulate_battle is
\* never entered: no round is played and there is no result.
C19_UnknownNameNotFound ==
    (Unknown(1) \/ Unknown(2)) =>
      /\ pc \in {"tool_fetch", "tool_fetched", "tool_done"}
      /\ turn_count = 0
      /\ turns = <<>>
      /\ result = NoResult
      /\ pokemon = [i \in 1..2 |-> Unprepared]
      /\ pc = "tool_done" =>
           response = [kind |-> "error",
                       error |-> <<"Pokemon not found",
                                   IF Unknown(1) THEN request[1] ELSE request[2]>>]

\* two different unknown names: the error names the first
C19_Witness ==
    /\ pc = "tool_done"
    /\ Unknown(1) /\ Unknown(2)
    /\ request[1] # request[2]
    /\ response.kind = "error"
    /\ response.error = <<"Pokemon not found", request[1]>>

\* C20: a type-effectiveness lookup that fails during an attack ends the
\* simulation there: the failing step resolves no attack, nothing happens
\* after it (no retry, no further attack or round), and the caller gets
\* the failure and no BattleResult, log or winner.
C20_LookupFailureAborts ==
    /\ [](stub_answer = "unavailable" =>
            /\ pc = "tool_done"
            /\ response = [kind |-> "error",
                           error |-> <<"Battle simulation failed", "unavailable">>]
            /\ result = NoResult)
    /\ [][(stub_answer # "unavailable" /\ stub_answer' = "unavailable") =>
            /\ pc \in {"first_attack", "second_attack"}
            /\ pokemon' = pokemon
            /\ current_hp' = current_hp
            /\ turn_count' = turn_count
            /\ turns' = turns
            /\ turn_details' = turn_details]_vars
    /\ [][stub_answer # "unavailable"]_vars

\* the lookup failed in the second actor's attack of the second round,
\* after damage had been dealt
C20_Witness ==
    /\ stub_answer = "unavailable"
    /\ pc = "tool_done"
    /\ turn_count = 2
    /\ Len(turn_details.actions) = 1
    /\ \E i \in 1..2 : current_hp[i] < pokemon[i].max_hp
    /\ response.kind = "error"

\* C21: of two simulate_battle calls interleaved at their awaited lookups,
\* no step of the running call changes the combatants (HP, status set,
\* duration counters) or the TurnRecords of the suspended call, and a
\* hand-over of control changes neither call's: the call that is resumed
\* finds them as it left them.
C21_NoSharedBattleState ==
    [][IF suspended'.id = suspended.id
         THEN suspended' = suspended
         ELSE /\ suspended'.pokemon = pokemon
              /\ suspended'.current_hp = current_hp
              /\ suspended'.turns = turns
              /\ suspended'.turn_details = turn_details
              /\ pokemon' = suspended.pokemon
              /\ current_hp' = suspended.current_hp
              /\ turns' = suspended.turns
              /\ turn_details' = suspended.turn_details]_vars

\* both calls in their second round or later, each at an awaited lookup,
\* a paralysed combatant in the one and a poisoned one in the other
C21_Witness ==
    /\ pc \in {"first_attack", "second_attack"}
    /\ suspended.pc \in {"first_attack", "second_attack"}
    /\ turn_count >= 2
    /\ suspended.turn_count >= 2
    /\ \E i \in 1..2 : In(PARALYSIS, pokemon[i].status_effects)
    /\ \E i \in 1..2 : In(POISON, suspended.pokemon[i].status_effects)

\* C22: when simulate_battle ends with one combatant above 0 HP and the
\* other at 0, the winner is the name of the one above 0 and the summary
\* names it with the number of TurnRecords; a named winner always has
\* HP > 0 and its opponent HP 0.
C22_WinnerIsTheSurvivor ==
    pc = "done" =>
      /\ \A i \in 1..2 :
           (current_hp[i] > 0 /\ current_hp[3 - i] = 0) =>
             /\ result.winner = pokemon[i].name
             /\ result.battle_summary = <<"won", pokemon[i].name, Len(result.turns)>>
      /\ result.winner # None =>
           \E i \in 1..2 : /\ pokemon[i].name = result.winner
                           /\ current_hp[i] > 0
                           /\ current_hp[3 - i] = 0

\* C23: when the first actor's attack has brought an HP to 0, the round
\* stops there: the next step appends the round's TurnRecord and leaves
\* the loop without the second actor's can_move, attack or any status
\* damage; from there the battle only returns, with that record appended
\* once and no further round.
C23_KnockOutStopsTheRound ==
    /\ [][(pc = "check" /\ (current_hp[1] = 0 \/ current_hp[2] = 0)) =>
            /\ pc' = "after_loop"
            /\ turns' = Append(turns, turn_details.turn)
            /\ UNCHANGED <<pokemon, current_hp, turn_details, turn_count>>]_vars
    /\ [][pc = "after_loop" =>
            /\ pc' = "done"
            /\ result'.turns = turns
            /\ Len(turns) = turn_count
            /\ UNCHANGED <<pokemon, current_hp, turn_details, turn_count, turns>>]_vars
    /\ [][pc # "done"]_vars

\* the first actor, poisoned in an earlier round, knocks its target out:
\* the round's record holds that attack only
C23_Witness ==
    /\ pc = "after_loop"
    /\ turn_count >= 2
    /\ Len(turn_details.actions) = 1
    /\ turn_details.actions[1].kind = "attack"
    /\ \E i \in 1..2 : /\ current_hp[i] = 0
                       /\ current_hp[3 - i] > 0
                       /\ In(POISON, pokemon[3 - i].status_effects)

\* C24: a can_move call on a sleeping combatant takes one off its sleep
\* counter; at 0 sleep and the counter are removed and the combatant may
\* act (wake message), otherwise the call blocks the action (asleep
\* message); so a sleep of duration d blocks exactly d - 1 actions and a
\* sleep of duration 1 blocks none.
C24_SleepTicksOnEveryCall ==
    [][(ret'.call = "can_move" /\ In(SLEEP, pokemon[1].status_effects)) =>
         LET t == DictGet(pokemon[1].status_turns, SLEEP, 0)
         IN  IF t - 1 <= 0
               THEN /\ ~In(SLEEP, pokemon'[1].status_effects)
                    /\ SLEEP \notin DOMAIN pokemon'[1].status_turns
                    /\ ret'.can
                    /\ In("woke_up", ret'.msg)
               ELSE /\ In(SLEEP, pokemon'[1].status_effects)
                    /\ DictGet(pokemon'[1].status_turns, SLEEP, 0) = t - 1
                    /\ ~ret'.can
                    /\ ret'.msg = <<"fast_asleep">>]_vars

\* the status damage the combatant i is due at the end of a round
StatusDamageDue(i) ==
    IF current_hp[i] > 0 THEN process_status_damage(pokemon[i]).damage ELSE 0

\* C25: end-of-round burn and poison damage is taken by a combatant above
\* 0 HP only and from that combatant's own HP; a combatant at 0 HP takes
\* none and gets no message, and no combatant's status damage is taken
\* from the other's HP, identical combatants included.
C25_StatusDamageOnOwnHp ==
    [][pc = "end_of_turn" =>
         /\ \A i \in 1..2 :
              current_hp'[i] = Max(0, current_hp[i] - StatusDamageDue(i))
         /\ Len(turn_details'.actions) - Len(turn_details.actions)
              = Cardinality({i \in 1..2 : StatusDamageDue(i) > 0})]_vars

\* int(damage) of the call just made: the float damage with its fraction
\* cut off, before modify_damage and the floor of 1
TruncatedDamage ==
    LET is_physical == move.damage_class = "physical"
        attack_stat == IF is_physical THEN pokemon[1].attack ELSE pokemon[1].special_attack
        defense_stat == IF is_physical THEN pokemon[2].defense
                        ELSE pokemon[2].special_defense
    IN  DamageNum(move.power, attack_stat, defense_stat, stub_answer, ret.is_critical,
                  ret.factor, In(move.type, pokemon[1].types))
          \div DamageDen(defense_stat, stub_answer)

\* what the same call returns, with the same rolls, for the attacker
\* without its burn
UnburnedDamage ==
    calculate_damage([pokemon[1] EXCEPT !.status_effects = ListRemove(@, BURN)],
                     pokemon[2], move, stub_answer,
                     [crit |-> ret.is_critical, factor |-> ret.factor, status |-> FALSE,
                      sleep |-> 1, confusion |-> 2]).damage

\* C26: a burned attacker's physical move returns the truncated damage
\* halved with floor division, then floored at 1, which is half of what
\* the same attack returns without the burn; a special move, and any move
\* of an attacker that is not burned, returns the truncated damage
\* floored at 1.
C26_BurnHalvesPhysical ==
    (pc = "damage_done" /\ move.power > 0) =>
      IF In(BURN, pokemon[1].status_effects) /\ move.damage_class = "physical"
        THEN /\ ret.damage = Max(1, TruncatedDamage \div 2)
             /\ ret.damage = Max(1, UnburnedDamage \div 2)
        ELSE /\ ret.damage = Max(1, TruncatedDamage)
             /\ ret.damage = UnburnedDamage

\* a burned attacker's tackle of a truncated damage of 7 or more, odd,
\* returning the half rounded down
C26_Witness ==
    /\ pc = "damage_done"
    /\ In(BURN, pokemon[1].status_effects)
    /\ move = tackle
    /\ TruncatedDamage >= 7
    /\ TruncatedDamage % 2 = 1
    /\ 2 * ret.damage = TruncatedDamage - 1

\* C27: a combatant made by prepare_pokemon_for_battle knows at most 4
\* moves, each of a power above 0 and each one of the first four moves
\* supplied, whatever the length and the content of the supplied list.
C27_AtMostFourAttackingMoves ==
    pc = "prepare_done" =>
      LET moves == pokemon[1].moves
          supplied == data[1].moves
      IN  /\ Len(moves) <= 4
          /\ \A k \in DOMAIN moves :
               /\ moves[k].power > 0
               /\ \E j \in DOMAIN supplied :
                    /\ j <= 4
                    /\ supplied[j].move.name = moves[k].name
                    /\ supplied[j].move.power = <<moves[k].power>>

\* six moves supplied, five of them with a power: four are kept
C27_Witness ==
    /\ pc = "prepare_done"
    /\ Len(data[1].moves) = 6
    /\ Len(pokemon[1].moves) = 4

\* C28: after any sequence of apply_status_effect and can_move calls from
\* no status, status_turns has an entry for each held sleep or confusion
\* and for nothing else, and every entry is 1 or more between calls.
C28_CountersMatchStatuses ==
    LET p == pokemon[1]
    IN  /\ DOMAIN p.status_turns = {s \in {SLEEP, CONFUSION} : In(s, p.status_effects)}
        /\ \A s \in DOMAIN p.status_turns : p.status_turns[s] >= 1

\* confused and asleep after a can_move call: the confusion counter run
\* down to 1, the sleep counter at the 3 it was drawn as
C28_Witness ==
    /\ ret.call = "can_move"
    /\ pokemon[1].status_effects = <<CONFUSION, SLEEP>>
    /\ pokemon[1].status_turns[CONFUSION] = 1
    /\ pokemon[1].status_turns[SLEEP] = 3

\* C29: the gating step of a turn (can_move and what is logged for it)
\* changes no HP: both HP counters and the hp fields of both combatants
\* are the same after it as before it, and a combatant that hurt itself
\* in confusion, or is paralysed, asleep or frozen, only loses its action.
C29_CanMoveKeepsHp ==
    [][(pc = "first_turn" \/ pc = "second_turn") =>
         /\ current_hp' = current_hp
         /\ \A i \in 1..2 : /\ pokemon'[i].hp = pokemon[i].hp
                            /\ pokemon'[i].max_hp = pokemon[i].max_hp
         /\ LET blocked ==
                  /\ Len(turn_details'.actions) > Len(turn_details.actions)
                  /\ Last(turn_details'.actions).kind = "status_msg"
                  /\ Last(turn_details'.actions).msgs \in
                       {<<"paralyzed">>, <<"fast_asleep">>, <<"frozen_solid">>,
                        <<"hurt_itself">>}
            IN  blocked => (pc' \notin {"first_attack", "second_attack"}
                            /\ move' = NoMove)]_vars

\* the second actor of a round has just hurt itself in confusion
C29_Witness ==
    /\ pc = "end_of_turn"
    /\ turn_details.actions # <<>>
    /\ Last(turn_details.actions).kind = "status_msg"
    /\ Last(turn_details.actions).msgs = <<"hurt_itself">>
    /\ \E i \in 1..2 : current_hp[i] < pokemon[i].max_hp

\* the Pokemon object q but for its status_effects and status_turns,
\* taken from p
WithStatusOf(q, p) ==
    [q EXCEPT !.status_effects = p.status_effects, !.status_turns = p.status_turns]

\* C30: simulate_battle keeps HP in its own counters: no step changes the
\* hp, max_hp, stat, type or move fields of either Pokemon object, only
\* status_effects and status_turns, and the return leaves the objects
\* with the conditions they were inflicted.
C30_OnlyStatusFieldsWritten ==
    /\ [][\A i \in 1..2 : WithStatusOf(pokemon'[i], pokemon[i]) = pokemon[i]]_vars
    /\ [](\A i \in 1..2 : pokemon[i].hp = pokemon[i].max_hp)
    /\ [][pc' = "done" => pokemon' = pokemon]_vars

\* the battle has returned: the winner has lost HP by the counters, its
\* object still has full hp and still holds paralysis
C30_Witness ==
    /\ pc = "done"
    /\ \E i \in 1..2 : /\ result.winner = pokemon[i].name
                       /\ 0 < current_hp[i]
                       /\ current_hp[i] < pokemon[i].hp
                       /\ In(PARALYSIS, pokemon[i].status_effects)

====
